---- MODULE Spec2Model ----
(***************************************************************************)
(* A model of TidePredictor (src/streamlit_app.py): the pipeline           *)
(*   get_tide_predictions -> interpolate_tides -> get_intervals ->         *)
(*   get_station_info -> create_ical_file                                  *)
(* run on one TidePredictor (Spec) or on two whose runs interleave in the   *)
(* same working directory (SpecTwo).  A TidePredictor is built by calling   *)
(* the constructor directly: the script's __main__ block raises             *)
(* AttributeError at line 241 (datetime.timedelta), before it builds one.   *)
(*                                                                         *)
(* Timestamps are whole minutes counted from midnight of day 0 (the NOAA   *)
(* hilo predictions carry "YYYY-MM-DD HH:MM" stamps).  A height is a double, *)
(* held as the rational it stands for and the side its rounding fell on:    *)
(* the heights the API returns and the thresholds are exact, the arithmetic *)
(* of the interpolation is carried out on the rationals, and a height it    *)
(* computes is that result rounded to either side or not at all.            *)
(***************************************************************************)
EXTENDS Integers, Sequences, FiniteSets, TLC

\* ---------------------------------------------------------------- bounds
\* The prediction window: knots lie on the minutes Origin .. Origin + MaxTime.
MaxTime == 3
\* Heights returned by the API and thresholds typed by the user: 0 .. MaxHeight.
MaxHeight == 2
\* Tide-shaped predictions (low, high, low) have their extrema up to MaxGap minutes apart.
MaxGap == 6

\* The window starts two minutes before midnight, so that stamps cross a day.
Origin == 24 * 60 - 2
Times == Origin .. (Origin + MaxTime)
Heights == 0 .. MaxHeight

\* Python's None, and a value that is not None.
None == [some |-> FALSE]
Some(x) == [some |-> TRUE, val |-> x]

\* ------------------------------------------------------------- rationals
Abs(i) == IF i < 0 THEN 0 - i ELSE i

RECURSIVE Gcd(_, _)
Gcd(a, b) == IF b = 0 THEN a ELSE Gcd(b, a % b)

\* The rational n/d in lowest terms, with a positive denominator.
Rat(n, d) ==
    LET s == IF d < 0 THEN 0 - 1 ELSE 1
        g == Gcd(Abs(n), Abs(d))
    IN  [n |-> (s * n) \div g, d |-> (s * d) \div g]

RatOf(i) == [n |-> i, d |-> 1]
RatAdd(a, b) == Rat(a.n * b.d + b.n * a.d, a.d * b.d)
RatSub(a, b) == Rat(a.n * b.d - b.n * a.d, a.d * b.d)
RatMul(a, b) == Rat(a.n * b.n, a.d * b.d)
RatDiv(a, b) == Rat(a.n * b.d, a.d * b.n)
RatLt(a, b) == a.n * b.d < b.n * a.d
RatSign(a) == IF a.n > 0 THEN 1 ELSE IF a.n < 0 THEN 0 - 1 ELSE 0
RatAbs(a) == [n |-> Abs(a.n), d |-> a.d]

\* ----------------------------------------------------------------- doubles
\* The double that is the rational q, and the double next to q on the side
\* e (-1 below, 1 above): what a computation whose exact result is q may give.
Exact(q) == [n |-> q.n, d |-> q.d, ulp |-> 0]
Rounded(q, e) == [n |-> q.n, d |-> q.d, ulp |-> e]

\* a < b on doubles.
FloatLt(a, b) == RatLt(a, b) \/ (a.n * b.d = b.n * a.d /\ a.ulp < b.ulp)

\* ------------------------------------------------------------------ PCHIP
\* df.resample('1T').interpolate(method='pchip') hands the knots to scipy's
\* PchipInterpolator.  x: the knots' minutes, y: their heights (rationals).

\* hk = x[k+1] - x[k] and mk = (y[k+1] - y[k]) / hk, for k in 1 .. Len(x) - 1.
PchipH(x, k) == x[k + 1] - x[k]
PchipM(x, y, k) == RatDiv(RatSub(y[k + 1], y[k]), RatOf(PchipH(x, k)))

\* PchipInterpolator._edge_case: the one-sided three-point end derivative.
PchipEdgeCase(h0, h1, m0, m1) ==
    LET d == RatDiv(RatSub(RatMul(RatOf(2 * h0 + h1), m0), RatMul(RatOf(h0), m1)),
                    RatOf(h0 + h1))
    IN  IF RatSign(d) # RatSign(m0) THEN RatOf(0)
        ELSE IF RatSign(m0) # RatSign(m1)
                /\ RatLt(RatMul(RatOf(3), RatAbs(m0)), RatAbs(d))
             THEN RatMul(RatOf(3), m0)
             ELSE d

\* PchipInterpolator._find_derivatives: the derivative at knot k.
PchipDerivative(x, y, k) ==
    LET n == Len(x)
    IN  IF n = 2 THEN PchipM(x, y, 1)
        ELSE IF k = 1
             THEN PchipEdgeCase(PchipH(x, 1), PchipH(x, 2), PchipM(x, y, 1), PchipM(x, y, 2))
        ELSE IF k = n
             THEN PchipEdgeCase(PchipH(x, n - 1), PchipH(x, n - 2),
                                PchipM(x, y, n - 1), PchipM(x, y, n - 2))
        ELSE LET m0 == PchipM(x, y, k - 1)
                 m1 == PchipM(x, y, k)
                 w1 == 2 * PchipH(x, k) + PchipH(x, k - 1)
                 w2 == PchipH(x, k) + 2 * PchipH(x, k - 1)
             IN  IF RatSign(m0) # RatSign(m1) \/ m0.n = 0 \/ m1.n = 0
                 THEN RatOf(0)
                 ELSE RatDiv(RatOf(w1 + w2),
                             RatAdd(RatDiv(RatOf(w1), m0), RatDiv(RatOf(w2), m1)))

\* CubicHermiteSpline: the cubic on [x[k], x[k+1]] evaluated at minute t.
PchipEval(x, y, k, t) ==
    LET dx == RatOf(PchipH(x, k))
        slope == PchipM(x, y, k)
        d0 == PchipDerivative(x, y, k)
        d1 == PchipDerivative(x, y, k + 1)
        tt == RatDiv(RatSub(RatAdd(d0, d1), RatMul(RatOf(2), slope)), dx)
        c0 == RatDiv(tt, dx)
        c1 == RatSub(RatDiv(RatSub(slope, d0), dx), tt)
        s == RatOf(t - x[k])
    IN  RatAdd(RatMul(RatAdd(RatMul(RatAdd(RatMul(c0, s), c1), s), d0), s), y[k])

\* ------------------------------------------------------- interpolate_tides
\* The index of the knot that carries minute t (0 when t is between knots).
KnotAt(rows, t) ==
    IF \E k \in 1 .. Len(rows) : rows[k].t = t
    THEN CHOOSE k \in 1 .. Len(rows) : rows[k].t = t
    ELSE 0

\* The height resample('1T').interpolate(method='pchip') puts at minute t: the
\* knot's own height where there is one (only the NaN rows are filled), the
\* cubic of the enclosing pair of knots elsewhere.
Pchip(rows, t) ==
    LET x == [k \in 1 .. Len(rows) |-> rows[k].t]
        y == [k \in 1 .. Len(rows) |-> rows[k].v]
        k == CHOOSE j \in 1 .. Len(rows) - 1 : x[j] < t /\ t < x[j + 1]
    IN  PchipEval(x, y, k, t)

\* Mutant: the resampled range leaves out its last minute.
ResampleIndexHalfOpen(rows) ==
    [i \in 1 .. (rows[Len(rows)].t - rows[1].t) |-> rows[1].t + i - 1]

\* The minutes of the resampled frame: every minute from the first knot to the
\* last, both included.
ResampleIndex(rows) ==
    [i \in 1 .. (rows[Len(rows)].t - rows[1].t + 1) |-> rows[1].t + i - 1]

\* df.resample('1T').interpolate(method='pchip') on a frame with at least one
\* row, before rounding.  A one-row frame has no NaN to fill and comes back as
\* it is.
Interpolate(rows) ==
    LET idx == ResampleIndex(rows)
    IN  [i \in 1 .. Len(idx) |->
            [t |-> idx[i],
             v |-> IF KnotAt(rows, idx[i]) # 0
                   THEN rows[KnotAt(rows, idx[i])].v
                   ELSE Exact(Pchip(rows, idx[i]))]]

\* Minute t lies between two knots of the same height: the cubic there has
\* the coefficients 0, 0, 0, y and evaluates to y without rounding.
Flat(rows, t) ==
    \E k \in 1 .. Len(rows) - 1 :
        rows[k].t < t /\ t < rows[k + 1].t /\ rows[k].v = rows[k + 1].v

\* The sides the rounding of sample s may fall on.  A knot's height is not
\* computed, and neither is a height on a flat stretch.  Of the computed
\* heights, the side is kept for those whose exact value is one a threshold
\* can take (a whole number): for the others the rounding is smaller than
\* the distance to any threshold and no comparison sees it.
Ulps(rows, s) ==
    IF KnotAt(rows, s.t) = 0 /\ ~Flat(rows, s.t) /\ s.v.d = 1
    THEN {0 - 1, 0, 1}
    ELSE {0}

\* The series the float arithmetic may produce for the exact series samples.
RECURSIVE Roundings(_, _)
Roundings(rows, samples) ==
    IF samples = <<>> THEN {<<>>}
    ELSE {<<[t |-> Head(samples).t, v |-> Rounded(Head(samples).v, e)]>> \o rest :
            e \in Ulps(rows, Head(samples)), rest \in Roundings(rows, Tail(samples))}

\* ----------------------------------------------------------- get_intervals
\* Python's truth value of a threshold: None and 0.0 are false.
Truthy(x) == x.some /\ x.val # 0

\* check_interval(v), with self.low and self.high as lo and hi.
CheckInterval(v, lo, hi) ==
    IF Truthy(lo) /\ Truthy(hi)
    THEN FloatLt(v, Exact(RatOf(hi.val))) /\ FloatLt(Exact(RatOf(lo.val)), v)
    ELSE IF Truthy(lo) THEN FloatLt(Exact(RatOf(lo.val)), v)
    ELSE IF Truthy(hi) THEN FloatLt(v, Exact(RatOf(hi.val)))
    ELSE TRUE

\* The loop of get_intervals from sample i on: start is the open interval's
\* first minute (None when no interval is open), acc the intervals emitted.
RECURSIVE Scan(_, _, _, _, _, _)
Scan(samples, lo, hi, i, start, acc) ==
    IF i > Len(samples) THEN acc
    ELSE IF CheckInterval(samples[i].v, lo, hi)
         THEN Scan(samples, lo, hi, i + 1,
                   IF start = None THEN Some(samples[i].t) ELSE start, acc)
         ELSE IF start # None
              THEN Scan(samples, lo, hi, i + 1, None,
                        Append(acc, <<start.val, samples[i].t>>))
              ELSE Scan(samples, lo, hi, i + 1, start, acc)

\* Mutant: start is not cleared when an interval is closed.
RECURSIVE ScanNoReset(_, _, _, _, _, _)
ScanNoReset(samples, lo, hi, i, start, acc) ==
    IF i > Len(samples) THEN acc
    ELSE IF CheckInterval(samples[i].v, lo, hi)
         THEN ScanNoReset(samples, lo, hi, i + 1,
                          IF start = None THEN Some(samples[i].t) ELSE start, acc)
         ELSE IF start # None
              THEN ScanNoReset(samples, lo, hi, i + 1, start,
                               Append(acc, <<start.val, samples[i].t>>))
              ELSE ScanNoReset(samples, lo, hi, i + 1, start, acc)

GetIntervalsNoReset(samples, lo, hi) == ScanNoReset(samples, lo, hi, 1, None, <<>>)

\* Mutant: an interval still open after the last sample is closed at that sample.
RECURSIVE ScanKeepTrailing(_, _, _, _, _, _)
ScanKeepTrailing(samples, lo, hi, i, start, acc) ==
    IF i > Len(samples)
    THEN IF start # None
         THEN Append(acc, <<start.val, samples[Len(samples)].t>>)
         ELSE acc
    ELSE IF CheckInterval(samples[i].v, lo, hi)
         THEN ScanKeepTrailing(samples, lo, hi, i + 1,
                               IF start = None THEN Some(samples[i].t) ELSE start, acc)
         ELSE IF start # None
              THEN ScanKeepTrailing(samples, lo, hi, i + 1, None,
                                    Append(acc, <<start.val, samples[i].t>>))
              ELSE ScanKeepTrailing(samples, lo, hi, i + 1, start, acc)

GetIntervalsKeepTrailing(samples, lo, hi) ==
    ScanKeepTrailing(samples, lo, hi, 1, None, <<>>)

GetIntervalsOf(samples, lo, hi) == Scan(samples, lo, hi, 1, None, <<>>)

\* -------------------------------------------------------- create_ical_file
\* Text is a sequence of characters; a run of characters that need no
\* escaping is written as one element.

\* f'{self.low}': None prints as None, a float with its decimal point.
FormatThreshold(x) == IF x.some THEN <<ToString(x.val) \o ".0">> ELSE <<"None">>

\* f'{station_name} min {self.low} max {self.high}'
Summary(station_name, lo, hi) ==
    station_name \o <<" min ">> \o FormatThreshold(lo) \o <<" max ">> \o FormatThreshold(hi)

\* start.replace(tzinfo=tz_offset): the naive minute tagged with the zero offset.
ReplaceTzinfo(t) == [minute |-> t, utcoffset |-> 0]

\* Mutant: dtend is taken from the interval's start.
BuildCalendarEndAtStart(ivs, station_name, lo, hi) ==
    [k \in 1 .. Len(ivs) |->
        [summary |-> Summary(station_name, lo, hi),
         dtstart |-> ReplaceTzinfo(ivs[k][1]),
         dtend |-> ReplaceTzinfo(ivs[k][1])]]

\* The loop of create_ical_file: one Event per interval, in the list's order.
BuildCalendar(ivs, station_name, lo, hi) ==
    [k \in 1 .. Len(ivs) |->
        [summary |-> Summary(station_name, lo, hi),
         dtstart |-> ReplaceTzinfo(ivs[k][1]),
         dtend |-> ReplaceTzinfo(ivs[k][2])]]

\* icalendar's TEXT escaping (RFC 5545 3.3.11) and its inverse.
NeedsEscape(c) == c \in {"\\", ";", ","}

RECURSIVE EscapeText(_)
EscapeText(txt) ==
    IF txt = <<>> THEN <<>>
    ELSE (IF NeedsEscape(Head(txt)) THEN <<"\\", Head(txt)>> ELSE <<Head(txt)>>)
         \o EscapeText(Tail(txt))

RECURSIVE UnescapeText(_)
UnescapeText(txt) ==
    IF txt = <<>> THEN <<>>
    ELSE IF Head(txt) = "\\" /\ Len(txt) >= 2
         THEN <<txt[2]>> \o UnescapeText(Tail(Tail(txt)))
         ELSE <<Head(txt)>> \o UnescapeText(Tail(txt))

\* icalendar's DATE-TIME of an aware datetime with a zero offset: the date, the
\* time of day to the second, and the UTC designator Z.
FormatDateTime(dt) ==
    [date |-> dt.minute \div (24 * 60),
     hh |-> (dt.minute % (24 * 60)) \div 60,
     mm |-> dt.minute % 60,
     ss |-> 0,
     z |-> dt.utcoffset = 0]

ParseDateTime(f) ==
    [minute |-> f.date * (24 * 60) + f.hh * 60 + f.mm,
     utcoffset |-> IF f.z THEN 0 ELSE 0 - 1]

Line(name, value) == [name |-> name, value |-> value]

EventLines(e) ==
    << Line("BEGIN", "VEVENT"),
       Line("SUMMARY", EscapeText(e.summary)),
       Line("DTSTART", FormatDateTime(e.dtstart)),
       Line("DTEND", FormatDateTime(e.dtend)),
       Line("END", "VEVENT") >>

RECURSIVE ComponentLines(_)
ComponentLines(events) ==
    IF events = <<>> THEN <<>>
    ELSE EventLines(Head(events)) \o ComponentLines(Tail(events))

\* cal.to_ical(): the content lines of the calendar, subcomponents in the order
\* they were added.
ToIcal(events) ==
    <<Line("BEGIN", "VCALENDAR")>> \o ComponentLines(events) \o <<Line("END", "VCALENDAR")>>

\* The octets of a content line: its name, the colon, its value and CRLF.
RECURSIVE TextLen(_)
TextLen(txt) == IF txt = <<>> THEN 0 ELSE Len(Head(txt)) + TextLen(Tail(txt))

LineLen(l) ==
    Len(l.name) + 1
        + (IF l.name = "SUMMARY" THEN TextLen(l.value)
           ELSE IF l.name \in {"DTSTART", "DTEND"} THEN 16   \* YYYYMMDDTHHMMSSZ
           ELSE Len(l.value))
        + 2

\* The bytes of a file, as the pieces of content lines they spell: octets
\* from .. to of a line.  A whole line is the piece 1 .. LineLen.
Bytes(lines) ==
    [k \in 1 .. Len(lines) |-> [line |-> lines[k], from |-> 1, to |-> LineLen(lines[k])]]

RECURSIVE Size(_)
Size(bytes) ==
    IF bytes = <<>> THEN 0
    ELSE Head(bytes).to - Head(bytes).from + 1 + Size(Tail(bytes))

\* The bytes after the first n.
RECURSIVE DropBytes(_, _)
DropBytes(bytes, n) ==
    IF bytes = <<>> \/ n = 0 THEN bytes
    ELSE LET len == Head(bytes).to - Head(bytes).from + 1
         IN  IF n >= len THEN DropBytes(Tail(bytes), n - len)
             ELSE <<[Head(bytes) EXCEPT !.from = @ + n]>> \o Tail(bytes)

\* The first n bytes.
RECURSIVE TakeBytes(_, _)
TakeBytes(bytes, n) ==
    IF bytes = <<>> \/ n = 0 THEN <<>>
    ELSE LET len == Head(bytes).to - Head(bytes).from + 1
         IN  IF n >= len THEN <<Head(bytes)>> \o TakeBytes(Tail(bytes), n - len)
             ELSE <<[Head(bytes) EXCEPT !.to = Head(bytes).from + n - 1]>>

\* a followed by b; two pieces of a line that meet spell one piece.
Concat(a, b) ==
    IF a # <<>> /\ b # <<>>
       /\ a[Len(a)].line = Head(b).line /\ a[Len(a)].to + 1 = Head(b).from
    THEN SubSeq(a, 1, Len(a) - 1) \o <<[a[Len(a)] EXCEPT !.to = Head(b).to]>> \o Tail(b)
    ELSE a \o b

\* Writing own from offset 0 through a handle opened earlier: what the file
\* holds beyond the written length stays.
WriteAtStart(current, own) == own \o DropBytes(current, Size(own))

\* read(2) of at most count bytes at offset pos.
ReadAt(current, pos, count) == TakeBytes(DropBytes(current, pos), count)

\* FileIO.readall, which f.read() runs: the buffer is sized to the file's
\* length at fstat plus one, and grows once it is full.
SMALLCHUNK == 8192
FirstBuffersize(end) == IF end > 0 THEN end + 1 ELSE SMALLCHUNK
NewBuffersize(currentsize) ==
    LET addend == IF currentsize > 65536 THEN currentsize \div 8 ELSE 256 + currentsize
    IN  currentsize + (IF addend < SMALLCHUNK THEN SMALLCHUNK ELSE addend)

\* The content lines of a document that holds whole lines only.
ContentLines(bytes) == [k \in 1 .. Len(bytes) |-> bytes[k].line]
WholeLines(bytes) ==
    \A k \in 1 .. Len(bytes) : bytes[k].from = 1 /\ bytes[k].to = LineLen(bytes[k].line)

\* Reading a calendar back: the (start, end, summary) of each VEVENT, in the
\* order of the document.
RECURSIVE ParseEvents(_, _, _)
ParseEvents(lines, cur, acc) ==
    IF lines = <<>> THEN acc
    ELSE LET l == Head(lines)
         IN  IF l.name = "BEGIN" /\ l.value = "VEVENT"
             THEN ParseEvents(Tail(lines), [x \in {} |-> 0], acc)
             ELSE IF l.name = "END" /\ l.value = "VEVENT"
             THEN ParseEvents(Tail(lines), cur, Append(acc, cur))
             ELSE IF l.name = "SUMMARY"
             THEN ParseEvents(Tail(lines), cur @@ [summary |-> UnescapeText(l.value)], acc)
             ELSE IF l.name = "DTSTART"
             THEN ParseEvents(Tail(lines), cur @@ [dtstart |-> ParseDateTime(l.value)], acc)
             ELSE IF l.name = "DTEND"
             THEN ParseEvents(Tail(lines), cur @@ [dtend |-> ParseDateTime(l.value)], acc)
             ELSE ParseEvents(Tail(lines), cur, acc)

FromIcal(lines) == ParseEvents(lines, [x \in {} |-> 0], <<>>)

\* ------------------------------------------------------------------ inputs
RECURSIVE SortedRows(_, _)
\* The rows of a frame whose index is the set S of minutes, ascending, with
\* height h[t] at minute t.
SortedRows(S, h) ==
    IF S = {} THEN <<>>
    ELSE LET t == CHOOSE m \in S : \A o \in S : m <= o
         IN  <<[t |-> t, v |-> Exact(RatOf(h[t]))]>> \o SortedRows(S \ {t}, h)

\* Any number of points on distinct minutes of the window, ascending.
WindowPredictions == UNION {{SortedRows(S, h) : h \in [S -> Heights]} : S \in SUBSET Times}

\* Three extrema g minutes apart, the outer two at the same height.
HiLoPredictions ==
    {<<[t |-> Origin, v |-> Exact(RatOf(a))], [t |-> Origin + g, v |-> Exact(RatOf(b))],
       [t |-> Origin + 2 * g, v |-> Exact(RatOf(a))]>> :
        g \in 1 .. MaxGap, a \in Heights, b \in Heights}

\* The "predictions" arrays the API may return.
Predictions == WindowPredictions \cup HiLoPredictions

\* Responses of the datagetter endpoint: success with its predictions, or a
\* status other than 200.
PredictionResponses ==
    {[status |-> 200, predictions |-> p] : p \in Predictions}
        \cup {[status |-> 404, predictions |-> <<>>]}

\* Station names as the metadata API spells them; the first needs escaping in
\* a calendar.
StationName == <<"Port Townsend", ",", " WA">>
OtherStationName == <<"Seattle">>

\* Responses of the stations/<id>.json endpoint for stations of these names.
StationResponsesFor(names) ==
    {[status |-> 200, stations |-> <<[name |-> n]>>] : n \in names}
        \cup {[status |-> 500, stations |-> <<>>]}

StationResponses == StationResponsesFor({StationName})

\* The thresholds a TidePredictor may be built with: the default None or a float.
Thresholds == {None} \cup {Some(h) : h \in Heights}

\* ------------------------------------------------------------------- state
VARIABLES
    self,            \* run -> the attributes of its TidePredictor
    pc,              \* run -> the stage of run() it is about to execute
    cal,             \* run -> the local Calendar of create_ical_file
    markdown,        \* run -> the bytes behind the download link it emitted
    raised,          \* run -> the exception that ended it
    contents,        \* run -> the buffer of its f.read(): bufsize and bytes read
    mycalendar_ics   \* the bytes of 'mycalendar.ics' in the working directory

vars == <<self, pc, cal, markdown, raised, contents, mycalendar_ics>>

\* TidePredictor.__init__
NewTidePredictor(lo, hi) ==
    [low |-> lo, high |-> hi, tides |-> None, interpolated_tides |-> None,
     intervals |-> None, station_info |-> None]

InitRuns(S, thresholds) ==
    /\ self \in [S -> {NewTidePredictor(lo, hi) : lo \in thresholds, hi \in thresholds}]
    /\ pc = [r \in S |-> "get_tide_predictions"]
    /\ cal = [r \in S |-> None]
    /\ markdown = [r \in S |-> None]
    /\ raised = [r \in S |-> None]
    /\ contents = [r \in S |-> None]
    /\ mycalendar_ics = None

\* An exception leaves run(): the remaining stages are not executed.
Raise(r, exc) ==
    /\ raised' = [raised EXCEPT ![r] = Some(exc)]
    /\ pc' = [pc EXCEPT ![r] = "failed"]

Goto(r, stage) ==
    /\ pc' = [pc EXCEPT ![r] = stage]
    /\ UNCHANGED raised

\* ----------------------------------------------------------------- actions
GetTidePredictions(r, responses) ==
    /\ pc[r] = "get_tide_predictions"
    /\ \E response \in responses :
        IF response.status = 200
        THEN /\ self' = [self EXCEPT ![r].tides = Some(response.predictions)]
             \* an empty frame has no 'height' column
             /\ IF response.predictions = <<>>
                THEN Raise(r, "KeyError")
                ELSE Goto(r, "interpolate_tides")
        ELSE /\ self' = [self EXCEPT ![r].tides = None]
             /\ Goto(r, "interpolate_tides")
    /\ UNCHANGED <<cal, markdown, contents, mycalendar_ics>>

InterpolateTides(r) ==
    /\ pc[r] = "interpolate_tides"
    /\ IF self[r].tides = None
       THEN \* None[['height']]
            /\ Raise(r, "TypeError")
            /\ UNCHANGED self
       ELSE /\ \E samples \in Roundings(self[r].tides.val, Interpolate(self[r].tides.val)) :
                self' = [self EXCEPT ![r].interpolated_tides = Some(samples)]
            /\ Goto(r, "get_intervals")
    /\ UNCHANGED <<cal, markdown, contents, mycalendar_ics>>

GetIntervals(r) ==
    /\ pc[r] = "get_intervals"
    /\ self' = [self EXCEPT ![r].intervals =
                   Some(GetIntervalsOf(self[r].interpolated_tides.val,
                                       self[r].low, self[r].high))]
    /\ Goto(r, "get_station_info")
    /\ UNCHANGED <<cal, markdown, contents, mycalendar_ics>>

GetStationInfo(r, responses) ==
    /\ pc[r] = "get_station_info"
    /\ \E response \in responses :
        IF response.status = 200
        THEN self' = [self EXCEPT ![r].station_info = Some(response.stations)]
        ELSE UNCHANGED self
    /\ Goto(r, "create_ical_file")
    /\ UNCHANGED <<cal, markdown, contents, mycalendar_ics>>

\* Mutant: a missing station_info is tolerated and the events go unnamed.
CreateIcalFileUnguarded(r) ==
    /\ pc[r] = "create_ical_file"
    /\ cal' = [cal EXCEPT ![r] =
                  Some(BuildCalendar(self[r].intervals.val,
                                     IF self[r].station_info = None
                                     THEN <<"None">>
                                     ELSE self[r].station_info.val[1].name,
                                     self[r].low, self[r].high))]
    /\ mycalendar_ics' = Some(<<>>)
    /\ Goto(r, "write_ical")
    /\ UNCHANGED <<self, markdown, contents>>

\* create_ical_file up to open('mycalendar.ics', 'wb'), which creates the file
\* or cuts it to length zero.
CreateIcalFile(r) ==
    /\ pc[r] = "create_ical_file"
    /\ IF self[r].station_info = None
       THEN \* None[0]
            /\ Raise(r, "TypeError")
            /\ UNCHANGED <<cal, mycalendar_ics>>
       ELSE /\ cal' = [cal EXCEPT ![r] =
                          Some(BuildCalendar(self[r].intervals.val,
                                             self[r].station_info.val[1].name,
                                             self[r].low, self[r].high))]
            /\ mycalendar_ics' = Some(<<>>)
            /\ Goto(r, "write_ical")
    /\ UNCHANGED <<self, markdown, contents>>

\* f.write(cal.to_ical()) and the close that ends the with block: the bytes go
\* to offset 0 of the file as it is now, which another run may have written
\* since this run opened it.
WriteIcal(r) ==
    /\ pc[r] = "write_ical"
    /\ mycalendar_ics' = Some(WriteAtStart(mycalendar_ics.val, Bytes(ToIcal(cal[r].val))))
    /\ Goto(r, "read_ical")
    /\ UNCHANGED <<self, cal, markdown, contents>>

\* open('mycalendar.ics', 'rb') and the start of f.read(): the buffer is sized
\* to the length fstat reports.
OpenIcal(r) ==
    /\ pc[r] = "read_ical"
    /\ contents' = [contents EXCEPT ![r] =
                       Some([bufsize |-> FirstBuffersize(Size(mycalendar_ics.val)),
                             bytes |-> <<>>])]
    /\ Goto(r, "f_read")
    /\ UNCHANGED <<self, cal, markdown, mycalendar_ics>>

\* One read(2) of f.read(), at the offset reached, of the file as it is now.
\* A read that returns nothing ends f.read(), and st.markdown emits the link
\* with the bytes read.
ReadIcal(r) ==
    /\ pc[r] = "f_read"
    /\ LET bytes_read == Size(contents[r].val.bytes)
           bufsize == IF bytes_read >= contents[r].val.bufsize
                      THEN NewBuffersize(bytes_read)
                      ELSE contents[r].val.bufsize
           chunk == ReadAt(mycalendar_ics.val, bytes_read, bufsize - bytes_read)
       IN  IF chunk = <<>>
           THEN /\ markdown' = [markdown EXCEPT ![r] = Some(contents[r].val.bytes)]
                /\ Goto(r, "done")
                /\ UNCHANGED contents
           ELSE /\ contents' = [contents EXCEPT ![r] =
                                   Some([bufsize |-> bufsize,
                                         bytes |-> Concat(contents[r].val.bytes, chunk)])]
                /\ UNCHANGED <<markdown, pc, raised>>
    /\ UNCHANGED <<self, cal, mycalendar_ics>>

\* TidePredictor.run, as run r.
Run(r, predictionResponses, stationResponses) ==
    \/ GetTidePredictions(r, predictionResponses)
    \/ InterpolateTides(r)
    \/ GetIntervals(r)
    \/ GetStationInfo(r, stationResponses)
    \/ CreateIcalFile(r)
    \/ WriteIcal(r)
    \/ OpenIcal(r)
    \/ ReadIcal(r)

\* One TidePredictor, built with any thresholds, and its run().
Init == InitRuns({1}, Thresholds)
Next == Run(1, PredictionResponses, StationResponses)
Spec == Init /\ [][Next]_vars

\* Two TidePredictors whose run() calls interleave in one working directory
\* (two threads or two processes).  Their inputs are kept few:
\* two alternating series, one threshold or none.
Alternating(first) ==
    [k \in 1 .. MaxTime + 1 |->
        [t |-> Origin + k - 1, v |-> Exact(RatOf(IF k % 2 = first THEN MaxHeight ELSE 0))]]

TwoPredictionResponses ==
    {[status |-> 200, predictions |-> Alternating(first)] : first \in {0, 1}}
        \cup {[status |-> 404, predictions |-> <<>>]}

InitTwo == InitRuns({1, 2}, {None, Some(1)})
NextTwo ==
    \E r \in {1, 2} :
        Run(r, TwoPredictionResponses, StationResponsesFor({StationName, OtherStationName}))
SpecTwo == InitTwo /\ [][NextTwo]_vars

\* ================================================================== claims
Runs == DOMAIN pc

\* The interpolated samples of run r, the intervals it emitted, and the
\* value of check_interval at its i-th sample.
Samples(r) == self[r].interpolated_tides.val
Emitted(r) == self[r].intervals.val
Holds(r, i) == CheckInterval(Samples(r)[i].v, self[r].low, self[r].high)
\* check_interval along the samples of run r.
HoldsAlong(r) == [i \in 1 .. Len(Samples(r)) |-> Holds(r, i)]
HasIntervals(r) == self[r].intervals # None
\* The position of the sample stamped t.
At(r, t) == CHOOSE i \in 1 .. Len(Samples(r)) : Samples(r)[i].t = t

\* The threshold semantics as documented: a threshold is set when it is not None.
Documented(v, lo, hi) ==
    IF lo.some /\ hi.some
    THEN FloatLt(Exact(RatOf(lo.val)), v) /\ FloatLt(v, Exact(RatOf(hi.val)))
    ELSE IF lo.some THEN FloatLt(Exact(RatOf(lo.val)), v)
    ELSE IF hi.some THEN FloatLt(v, Exact(RatOf(hi.val)))
    ELSE TRUE

ProbeHeights == (0 - 1) .. (MaxHeight + 1)

\* C1: for every height v and every configuration of low and high (None or any
\* float, 0.0 included), check_interval(v) is low < v < high when both are set,
\* v > low when only low is set, v < high when only high is set, true otherwise.
C1_CheckIntervalAsDocumented ==
    \A r \in Runs : \A h \in ProbeHeights :
        CheckInterval(Exact(RatOf(h)), self[r].low, self[r].high)
            = Documented(Exact(RatOf(h)), self[r].low, self[r].high)

\* C2 as stated: for every emitted interval (start, end), check_interval is true
\* at every sample strictly between start and end, false at the sample right
\* before start and false at the sample right after end.
C2_FalseAfterEnd ==
    \A r \in Runs : HasIntervals(r) =>
        LET h == HoldsAlong(r)
        IN  \A k \in 1 .. Len(Emitted(r)) :
                LET s == At(r, Emitted(r)[k][1])
                    e == At(r, Emitted(r)[k][2])
                IN  /\ \A i \in (s + 1) .. (e - 1) : h[i]
                    /\ s > 1 => ~h[s - 1]
                    /\ e < Len(h) => ~h[e + 1]

\* C2 amended: for every emitted interval (start, end), check_interval is true
\* at start and at every sample strictly between start and end, false at the
\* sample right before start (when there is one) and false at the sample at end.
C2_FalseAtEnd ==
    \A r \in Runs : HasIntervals(r) =>
        LET h == HoldsAlong(r)
        IN  \A k \in 1 .. Len(Emitted(r)) :
                /\ \E i \in 1 .. Len(h) : Samples(r)[i].t = Emitted(r)[k][1]
                /\ \E i \in 1 .. Len(h) : Samples(r)[i].t = Emitted(r)[k][2]
                /\ LET s == At(r, Emitted(r)[k][1])
                       e == At(r, Emitted(r)[k][2])
                   IN  /\ \A i \in s .. (e - 1) : h[i]
                       /\ s > 1 => ~h[s - 1]
                       /\ ~h[e]

\* An interval with a sample before its start, samples inside it and a sample
\* after its end.
C2_Witness ==
    \E r \in Runs : HasIntervals(r) /\
        \E k \in 1 .. Len(Emitted(r)) :
            /\ At(r, Emitted(r)[k][1]) > 1
            /\ At(r, Emitted(r)[k][2]) > At(r, Emitted(r)[k][1]) + 1
            /\ At(r, Emitted(r)[k][2]) < Len(Samples(r))

\* C3: the emitted intervals are in strictly increasing order of start and do
\* not overlap: for (s1, e1) before (s2, e2) in the list, s1 < s2 and e1 <= s2.
C3_OrderedDisjoint ==
    \A r \in Runs : HasIntervals(r) =>
        \A j \in 1 .. Len(Emitted(r)) : \A k \in 1 .. Len(Emitted(r)) :
            j < k => /\ Emitted(r)[j][1] < Emitted(r)[k][1]
                     /\ Emitted(r)[j][2] <= Emitted(r)[k][1]

C3_Witness ==
    \E r \in Runs : HasIntervals(r) /\ Len(Emitted(r)) >= 2

\* C4: a run of true samples still open when the series ends is never emitted:
\* every emitted interval ends at the stamp of a sample of the series at which
\* check_interval is false, no interval starts in the trailing run, and a
\* series on which check_interval is true throughout yields no interval.
C4_TrailingRunDropped ==
    \A r \in Runs : HasIntervals(r) =>
        LET h == HoldsAlong(r)
            n == Len(Samples(r))
        IN  /\ \A k \in 1 .. Len(Emitted(r)) :
                \E i \in 1 .. n : Samples(r)[i].t = Emitted(r)[k][2] /\ ~h[i]
            /\ \A i \in 1 .. n :
                (\A j \in i .. n : h[j]) =>
                    \A k \in 1 .. Len(Emitted(r)) :
                        /\ Emitted(r)[k][1] # Samples(r)[i].t
                        /\ Emitted(r)[k][2] < Samples(r)[i].t
            /\ (\A i \in 1 .. n : h[i]) => Emitted(r) = <<>>

\* An interval was emitted and the run that follows it was still open at the
\* end of the series.
C4_Witness ==
    \E r \in Runs :
        /\ HasIntervals(r)
        /\ Emitted(r) # <<>>
        /\ Holds(r, Len(Samples(r)))
        /\ Len(Samples(r)) >= 3

\* ------------------------------------------------------------------ C5
\* The prediction fetch of run r came back with a status other than 200.
PredictionFetchFailed(r) ==
    pc[r] # "get_tide_predictions" /\ self[r].tides = None

\* The station-info fetch of run r came back with a status other than 200.
StationFetchFailed(r) ==
    /\ pc[r] \in {"create_ical_file", "write_ical", "read_ical", "f_read", "done", "failed"}
    /\ self[r].intervals # None
    /\ self[r].station_info = None

\* C5: when the prediction fetch or the station-info fetch returns a status
\* other than 200, the run ends in failure: the only stage it may still execute
\* is the one that raises, no later stage completes on the missing data,
\* mycalendar.ics is not written and no download link is emitted.
C5_FailedFetchNoCalendar ==
    \A r \in Runs :
        /\ PredictionFetchFailed(r) =>
            /\ pc[r] \in {"interpolate_tides", "failed"}
            /\ self[r].interpolated_tides = None
            /\ self[r].intervals = None
        /\ StationFetchFailed(r) => pc[r] \in {"create_ical_file", "failed"}
        /\ (PredictionFetchFailed(r) \/ StationFetchFailed(r)) =>
            /\ cal[r] = None
            /\ markdown[r] = None
            /\ mycalendar_ics = None
            /\ pc[r] = "failed" => raised[r] = Some("TypeError")

\* A run that fetched and interpolated, lost the station info and failed.
C5_Witness ==
    \E r \in Runs :
        /\ StationFetchFailed(r)
        /\ pc[r] = "failed"
        /\ raised[r] = Some("TypeError")
        /\ Emitted(r) # <<>>

\* ------------------------------------------------------------------ C7
\* txt holds the characters of sub, in a row.
Contains(txt, sub) ==
    \E i \in 1 .. (Len(txt) - Len(sub) + 1) : SubSeq(txt, i, i + Len(sub) - 1) = sub

\* C7: the calendar create_ical_file builds from N intervals has N events in
\* the intervals' order, the k-th from the k-th interval's start to its end,
\* both tagged GMT, its summary holding the station name and the low and high
\* bounds; the document written to mycalendar.ics and read back for the link
\* parses to those same N (start, end, summary) triples.
C7_OneEventPerInterval ==
    \A r \in Runs : cal[r] # None =>
        LET ivs == Emitted(r)
            events == cal[r].val
            name == self[r].station_info.val[1].name
            NthOk(e, k) ==
                /\ e.dtstart = [minute |-> ivs[k][1], utcoffset |-> 0]
                /\ e.dtend = [minute |-> ivs[k][2], utcoffset |-> 0]
                /\ Contains(e.summary, name)
                /\ Contains(e.summary, <<" min ">> \o FormatThreshold(self[r].low))
                /\ Contains(e.summary, <<" max ">> \o FormatThreshold(self[r].high))
            AllOk(parsed) ==
                /\ Len(parsed) = Len(ivs)
                /\ \A k \in 1 .. Len(ivs) : NthOk(parsed[k], k)
        IN  /\ AllOk(events)
            /\ FromIcal(ToIcal(events)) = events
            /\ pc[r] \in {"read_ical", "f_read"} =>
                /\ WholeLines(mycalendar_ics.val)
                /\ AllOk(FromIcal(ContentLines(mycalendar_ics.val)))
                /\ contents[r] # None =>
                    contents[r].val.bytes \in {<<>>, mycalendar_ics.val}
            /\ pc[r] = "done" =>
                /\ WholeLines(markdown[r].val)
                /\ AllOk(FromIcal(ContentLines(markdown[r].val)))

\* A finished run with two events for a station whose name needs escaping.
C7_Witness ==
    \E r \in Runs :
        /\ pc[r] = "done"
        /\ Len(cal[r].val) >= 2
        /\ Contains(self[r].station_info.val[1].name, <<",">>)
        /\ Len(FromIcal(ContentLines(markdown[r].val))) = Len(Emitted(r))

\* ------------------------------------------------------------------ C8
\* C8: when the fetched series has fewer than 2 points, no interpolated series
\* is produced and the run goes no further than interpolate_tides.
C8_TooFewPointsFails ==
    \A r \in Runs :
        (self[r].tides # None /\ Len(self[r].tides.val) < 2) =>
            /\ self[r].interpolated_tides = None
            /\ pc[r] \in {"interpolate_tides", "failed"}

\* ------------------------------------------------------------------ C9
\* C9: for a series of at least 2 points on strictly increasing minutes, the
\* interpolated series has exactly one sample at every minute from the first
\* source stamp to the last and none outside, and at every source stamp the
\* interpolated height is the source height.
C9_GridAndKnots ==
    \A r \in Runs :
        (self[r].interpolated_tides # None /\ Len(self[r].tides.val) >= 2) =>
            LET rows == self[r].tides.val
                first == rows[1].t
                last == rows[Len(rows)].t
            IN  /\ Len(Samples(r)) = last - first + 1
                /\ \A i \in 1 .. Len(Samples(r)) : Samples(r)[i].t = first + i - 1
                /\ \A k \in 1 .. Len(rows) :
                    \E i \in 1 .. Len(Samples(r)) :
                        Samples(r)[i].t = rows[k].t /\ Samples(r)[i].v = rows[k].v

\* Three knots with minutes between them that had to be filled.
C9_Witness ==
    \E r \in Runs :
        /\ self[r].interpolated_tides # None
        /\ Len(self[r].tides.val) = 3
        /\ Len(Samples(r)) > 2 * Len(self[r].tides.val)
        /\ \E i \in 1 .. Len(Samples(r)) : Samples(r)[i].v.d # 1

\* ----------------------------------------------------------------- C10
\* The maximal runs of true samples that a false sample follows, h being the
\* value of check_interval along the series: <<i, j>> is the run i .. j - 1
\* and the false sample j.
ClosedRuns(h) ==
    LET starts == {i \in 1 .. Len(h) : h[i] /\ (i = 1 \/ ~h[i - 1])}
        closed == {i \in starts : \E j \in (i + 1) .. Len(h) : ~h[j]}
    IN  {<<i, CHOOSE j \in (i + 1) .. Len(h) : ~h[j] /\ \A m \in i .. (j - 1) : h[m]>> :
            i \in closed}

\* The emitted intervals are the closed runs, each once, start before end.
OneIntervalPerClosedRun(r, h) ==
    /\ {Emitted(r)[k] : k \in 1 .. Len(Emitted(r))}
         = {<<Samples(r)[ij[1]].t, Samples(r)[ij[2]].t>> : ij \in ClosedRuns(h)}
    /\ Len(Emitted(r)) = Cardinality(ClosedRuns(h))
    /\ \A k \in 1 .. Len(Emitted(r)) : Emitted(r)[k][1] < Emitted(r)[k][2]

\* The series is below the threshold, rises above it once and falls below again.
RisesOnce(h) ==
    LET above == {i \in 1 .. Len(h) : h[i]}
    IN  /\ above # {}
        /\ 1 \notin above /\ Len(h) \notin above
        /\ \A i \in above : \A j \in above : \A m \in i .. j : m \in above

\* The scenario [(00:00, 1.0), (06:00, 9.0), (12:00, 1.0)] with low = 5.0 and no
\* high, with minutes for hours and the heights 1, 5, 9 mapped to 0, 1, 2.
IsScenario(r) ==
    /\ self[r].tides = Some(<<[t |-> Origin, v |-> Exact(RatOf(0))],
                              [t |-> Origin + 6, v |-> Exact(RatOf(2))],
                              [t |-> Origin + 12, v |-> Exact(RatOf(0))]>>)
    /\ self[r].low = Some(1)
    /\ self[r].high = None

\* C10 as stated: the emitted intervals correspond one to one to the closed
\* runs, start < end, and a series that rises above the threshold once and
\* falls below it again yields exactly one interval with both endpoints
\* strictly inside the series' time range.
C10_EndpointsStrictlyInside ==
    \A r \in Runs : HasIntervals(r) =>
        LET h == HoldsAlong(r)
            n == Len(Samples(r))
        IN  /\ OneIntervalPerClosedRun(r, h)
            /\ RisesOnce(h) =>
                /\ Len(Emitted(r)) = 1
                /\ Samples(r)[1].t < Emitted(r)[1][1]
                /\ Emitted(r)[1][2] < Samples(r)[n].t

\* C10 amended: the same, with the one interval starting strictly after the
\* first stamp and ending at or before the last stamp: strictly before it
\* exactly when two or more false samples follow the run, as they do in the
\* scenario.
C10_EndpointsInside ==
    \A r \in Runs : HasIntervals(r) =>
        LET h == HoldsAlong(r)
            n == Len(Samples(r))
        IN  /\ OneIntervalPerClosedRun(r, h)
            /\ RisesOnce(h) =>
                /\ Len(Emitted(r)) = 1
                /\ Samples(r)[1].t < Emitted(r)[1][1]
                /\ Emitted(r)[1][2] <= Samples(r)[n].t
                /\ Emitted(r)[1][2] < Samples(r)[n].t <=> ~h[n - 1]
            /\ IsScenario(r) =>
                /\ RisesOnce(h)
                /\ Len(Emitted(r)) = 1
                /\ Samples(r)[1].t < Emitted(r)[1][1]
                /\ Emitted(r)[1][2] < Samples(r)[n].t
                /\ h[At(r, Origin + 6)]

\* The scenario's intervals have been extracted.
C10_Witness ==
    \E r \in Runs : HasIntervals(r) /\ IsScenario(r) /\ Len(Emitted(r)) = 1

\* ------------------------------------------------------------------ C6
\* C6: whatever the interleaving of two runs, the bytes a run reads back and
\* puts behind its download link are the serialization of its own intervals,
\* station name and thresholds.
C6_OwnCalendarDownloaded ==
    \A r \in Runs : pc[r] = "done" =>
        markdown[r] = Some(Bytes(ToIcal(BuildCalendar(Emitted(r),
                                                     self[r].station_info.val[1].name,
                                                     self[r].low, self[r].high))))

====
